---- MODULE Spec2Model ----
(***************************************************************************)
(* Model of the FusionEngine Geyser plugin (src/src/lib.rs).               *)
(*                                                                         *)
(* Host threads call the GeyserPlugin callbacks.  update_account and       *)
(* notify_transaction convert the host value to an AccTx and spawn a task  *)
(* on smol's global executor that sends it through the process-wide        *)
(* SENDER.  SENDER is a lazy_static: its first dereference (which happens  *)
(* inside a send task, on an executor thread) creates the unbounded        *)
(* channel, creates the two files and spawns the writer task.  The writer  *)
(* task receives events and appends their Debug rendering to the file of   *)
(* the event's variant; write_all(..).unwrap() panics on an I/O error,     *)
(* which drops the task together with its Receiver and so closes the       *)
(* channel.                                                                *)
(*                                                                         *)
(* Environment: smol's global executor runs on SMOL_THREADS threads        *)
(* (1 when the variable is unset); the model draws that number in Init.    *)
(* File::create is taken to succeed (the working directory is writable).   *)
(***************************************************************************)
EXTENDS Integers, Sequences, FiniteSets, TLC

\* ---------------------------------------------------------------- bounds
NumProducers == 2       \* host threads that invoke callbacks
MaxEvents == 2          \* update_account + notify_transaction calls in a run
MaxExecThreads == 2     \* largest SMOL_THREADS value explored

Producers == 1..NumProducers
ExecThreads == 1..MaxExecThreads

VARIABLES
    nthreads,     \* number of executor threads (SMOL_THREADS, default 1)
    pc,           \* host thread -> "idle" | "awaiting" | "panicked"
    taskres,      \* host thread -> output of the send task it awaits
    issued,       \* host thread -> events built by its callbacks, in call order
    ret,          \* the callback that returned last and what it returned
    runq,         \* runnable tasks of the global executor, FIFO
    thr,          \* executor thread -> the task it is polling
    once,         \* lazy_static Once of SENDER: "uninit" | "running" | "done"
    SENDER,       \* id of the channel stored in the static (0: none yet)
    chan,         \* events buffered in the channel
    closed,       \* the channel is closed (its Receiver was dropped)
    ioError,      \* a write_all of the writer task has returned Err
    wstate,       \* writer task: unspawned|scheduled|running|waiting|dead|finished
    accs_file,    \* records appended to ./accs.txt, one per write_all
    txs_file,     \* records appended to ./txs.txt, one per write_all
    created,      \* how many channels / files / writer tasks were created
    sentTo,       \* ids of the channels a send was performed on
    arrived,      \* events accepted by the channel, in arrival order
    rejected,     \* events whose send returned Err (channel closed)
    cin,          \* conversion check: the host value handed to into_acc/into_tx
    cout          \* conversion check: the AccTx produced

pipeline == <<runq, thr, once, SENDER, chan, closed, ioError, wstate, accs_file,
              txs_file, created, sentTo, arrived, rejected>>
hostvars == <<pc, taskres, issued, ret>>
convvars == <<cin, cout>>
vars == <<nthreads, pc, taskres, issued, ret, runq, thr, once,
          SENDER, chan, closed, ioError, wstate, accs_file, txs_file, created, sentTo,
          arrived, rejected, cin, cout>>

\* ------------------------------------------------------------ Event Model
\* Option<T>: None is <<>>, Some(x) is <<x>>.
None == <<>>
Some(x) == <<x>>

\* Fault model for into_acc: the V0_0_2 arm copied from the V0_0_1 arm, the
\* signature left at its default.
into_acc_SignatureDefaulted(slot, is_startup, value) ==
    [kind |-> "Acc",
     pubkey |-> value.pubkey,
     lamports |-> value.lamports,
     owner |-> value.owner,
     executable |-> value.executable,
     rent_epoch |-> value.rent_epoch,
     data |-> value.data,
     write_version |-> value.write_version,
     txn_signature |-> None,
     slot |-> slot,
     is_startup |-> is_startup]

\* AccTx::into_acc
into_acc(slot, is_startup, value) ==
    IF value.version = "V0_0_1"
    THEN [kind |-> "Acc",
          pubkey |-> value.pubkey,
          lamports |-> value.lamports,
          owner |-> value.owner,
          executable |-> value.executable,
          rent_epoch |-> value.rent_epoch,
          data |-> value.data,
          write_version |-> value.write_version,
          txn_signature |-> None,
          slot |-> slot,
          is_startup |-> is_startup]
    ELSE [kind |-> "Acc",
          pubkey |-> value.pubkey,
          lamports |-> value.lamports,
          owner |-> value.owner,
          executable |-> value.executable,
          rent_epoch |-> value.rent_epoch,
          data |-> value.data,
          write_version |-> value.write_version,
          txn_signature |-> value.txn_signature,
          slot |-> slot,
          is_startup |-> is_startup]

\* Fault model for into_tx: the V0_0_2 arm copied from the V0_0_1 arm, the
\* index left at its default.
into_tx_IndexDefaulted(slot, value) ==
    [kind |-> "Tx",
     slot |-> slot,
     signature |-> value.signature,
     is_vote |-> value.is_vote,
     transaction |-> value.transaction,
     transaction_status_meta |-> value.transaction_status_meta,
     index |-> None]

\* AccTx::into_tx
into_tx(slot, value) ==
    IF value.version = "V0_0_1"
    THEN [kind |-> "Tx",
          slot |-> slot,
          signature |-> value.signature,
          is_vote |-> value.is_vote,
          transaction |-> value.transaction,
          transaction_status_meta |-> value.transaction_status_meta,
          index |-> None]
    ELSE [kind |-> "Tx",
          slot |-> slot,
          signature |-> value.signature,
          is_vote |-> value.is_vote,
          transaction |-> value.transaction,
          transaction_status_meta |-> value.transaction_status_meta,
          index |-> Some(value.index)]

\* AccTx::into_bytes: the Debug rendering, variant name first and then the
\* fields in declaration order.
into_bytes(e) ==
    IF e.kind = "Acc"
    THEN <<"Acc", e.pubkey, e.lamports, e.owner, e.executable, e.rent_epoch,
           e.data, e.write_version, e.txn_signature, e.slot, e.is_startup>>
    ELSE <<"Tx", e.slot, e.signature, e.is_vote, e.transaction,
           e.transaction_status_meta, e.index>>

\* The host values of the pipeline runs: the n-th event of host thread p.
\* Both schema versions occur; pubkey/signature and write_version/index make
\* every event of a run distinct.
AccountInfoOf(p, n) ==
    IF n % 2 = 1
    THEN [version |-> "V0_0_1",
          pubkey |-> <<p>>, lamports |-> 500, owner |-> <<0>>,
          executable |-> FALSE, rent_epoch |-> 0, data |-> <<>>,
          write_version |-> n]
    ELSE [version |-> "V0_0_2",
          pubkey |-> <<p>>, lamports |-> 500, owner |-> <<0>>,
          executable |-> FALSE, rent_epoch |-> 0, data |-> <<>>,
          write_version |-> n,
          txn_signature |-> IF p % 2 = 1 THEN Some(<<p, n>>) ELSE None]

TransactionInfoOf(p, n) ==
    IF n % 2 = 1
    THEN [version |-> "V0_0_2",
          signature |-> <<p, n>>, is_vote |-> FALSE, transaction |-> <<p, n>>,
          transaction_status_meta |-> "ok", index |-> n]
    ELSE [version |-> "V0_0_1",
          signature |-> <<p, n>>, is_vote |-> FALSE, transaction |-> <<p, n>>,
          transaction_status_meta |-> "ok"]

SlotOf(n) == 10 + n

\* ------------------------------------------------------- tasks and threads
NoEvent == [kind |-> "None"]
NoInput == [family |-> "none"]
Idle == [type |-> "idle", ev |-> NoEvent, waiter |-> 0, pos |-> "none"]
SendTask(e, w) == [type |-> "send", ev |-> e, waiter |-> w]
WriterTask == [type |-> "writer", ev |-> NoEvent, waiter |-> 0]
Polling(task, pos) ==
    [type |-> task.type, ev |-> task.ev, waiter |-> task.waiter, pos |-> pos]

Total(f) == LET RECURSIVE Sum(_)
                Sum(S) == IF S = {} THEN 0
                          ELSE LET x == CHOOSE y \in S : TRUE
                               IN Len(f[x]) + Sum(S \ {x})
            IN Sum(DOMAIN f)

Range(s) == {s[i] : i \in DOMAIN s}

\* ----------------------------------------------------------------- Init
PipelineInit ==
    /\ pc = [p \in Producers |-> "idle"]
    /\ taskres = [p \in Producers |-> "none"]
    /\ issued = [p \in Producers |-> <<>>]
    /\ ret = [cb |-> "none", res |-> "none"]
    /\ runq = <<>>
    /\ thr = [t \in ExecThreads |-> Idle]
    /\ once = "uninit"
    /\ SENDER = 0
    /\ chan = <<>>
    /\ closed = FALSE
    /\ ioError = FALSE
    /\ wstate = "unspawned"
    /\ accs_file = <<>>
    /\ txs_file = <<>>
    /\ created = [channel |-> 0, accs |-> 0, txs |-> 0, writer |-> 0]
    /\ sentTo = {}
    /\ arrived = <<>>
    /\ rejected = {}

Init ==
    /\ nthreads \in ExecThreads
    /\ PipelineInit
    /\ cin = NoInput
    /\ cout = NoEvent

\* ------------------------------------------------------- host callbacks
\* Fault model for update_account: the hand-off detached as it is in
\* notify_transaction, the callback returning without awaiting the task.
update_account_Detached(p) ==
    /\ pc[p] = "idle"
    /\ Total(issued) < MaxEvents
    /\ LET n == Len(issued[p]) + 1
           outcome == into_acc(SlotOf(n), n = 1, AccountInfoOf(p, n))
       IN /\ issued' = [issued EXCEPT ![p] = Append(@, outcome)]
          /\ runq' = Append(runq, SendTask(outcome, 0))
    /\ ret' = [cb |-> "update_account", res |-> "Ok"]
    /\ UNCHANGED <<nthreads, pc, taskres, thr, once, SENDER, chan, closed,
                   ioError, wstate, accs_file, txs_file, created, sentTo,
                   arrived, rejected, cin, cout>>

\* update_account, up to the point where block_on waits for the spawned task.
update_account(p) ==
    /\ pc[p] = "idle"
    /\ Total(issued) < MaxEvents
    /\ LET n == Len(issued[p]) + 1
           outcome == into_acc(SlotOf(n), n = 1, AccountInfoOf(p, n))
       IN /\ issued' = [issued EXCEPT ![p] = Append(@, outcome)]
          /\ runq' = Append(runq, SendTask(outcome, p))
    /\ pc' = [pc EXCEPT ![p] = "awaiting"]
    /\ taskres' = [taskres EXCEPT ![p] = "none"]
    /\ UNCHANGED <<nthreads, ret, thr, once, SENDER, chan, closed,
                   ioError, wstate, accs_file, txs_file, created, sentTo, arrived,
                   rejected, cin, cout>>

\* What update_account does with the output of the awaited task:
\* .unwrap() panics on Err, otherwise the callback returns Ok(()).
AfterUnwrap(res) == IF res = "Ok" THEN "idle" ELSE "panicked"

\* update_account, from the completion of the awaited task to its return.
update_account_return(p) ==
    /\ pc[p] = "awaiting"
    /\ taskres[p] # "none"
    /\ pc' = [pc EXCEPT ![p] = AfterUnwrap(taskres[p])]
    /\ ret' = [cb |-> "update_account",
               res |-> IF AfterUnwrap(taskres[p]) = "idle" THEN "Ok" ELSE "panic"]
    /\ taskres' = [taskres EXCEPT ![p] = "none"]
    /\ UNCHANGED <<nthreads, issued, cin, cout>>
    /\ UNCHANGED pipeline

\* notify_transaction: the task is detached, the callback returns at once.
notify_transaction(p) ==
    /\ pc[p] = "idle"
    /\ Total(issued) < MaxEvents
    /\ LET n == Len(issued[p]) + 1
           outcome == into_tx(SlotOf(n), TransactionInfoOf(p, n))
       IN /\ issued' = [issued EXCEPT ![p] = Append(@, outcome)]
          /\ runq' = Append(runq, SendTask(outcome, 0))
    /\ ret' = [cb |-> "notify_transaction", res |-> "Ok"]
    /\ UNCHANGED <<nthreads, pc, taskres, thr, once, SENDER, chan,
                   closed, ioError, wstate, accs_file, txs_file, created, sentTo,
                   arrived, rejected, cin, cout>>

HostThreadFree == {p \in Producers : pc[p] = "idle"} # {}

\* Fault model for the callbacks that only return: pipeline setup done in
\* the callback (the channel and the files are created there).
PipelineSetUpInCallback ==
    /\ created' = [created EXCEPT !.channel = @ + 1, !.accs = @ + 1,
                                  !.txs = @ + 1]
    /\ accs_file' = <<>>
    /\ txs_file' = <<>>
    /\ UNCHANGED <<runq, thr, once, SENDER, chan, closed, ioError, wstate,
                   sentTo, arrived, rejected>>

\* The effect on the pipeline of a callback whose body only returns.  These
\* callbacks read nothing of the calling thread: they can be invoked by any
\* host thread that is not inside another callback.
NoPipelineEffect == UNCHANGED pipeline

\* on_load sets up the logger and logs one line; neither is plugin state.
on_load ==
    /\ HostThreadFree
    /\ ret' = [cb |-> "on_load", res |-> "Ok"]
    /\ NoPipelineEffect
    /\ UNCHANGED <<nthreads, pc, taskres, issued, cin, cout>>

on_unload ==
    /\ HostThreadFree
    /\ ret' = [cb |-> "on_unload", res |-> "unit"]
    /\ NoPipelineEffect
    /\ UNCHANGED <<nthreads, pc, taskres, issued, cin, cout>>

notify_block_metadata ==
    /\ HostThreadFree
    /\ ret' = [cb |-> "notify_block_metadata", res |-> "Ok"]
    /\ NoPipelineEffect
    /\ UNCHANGED <<nthreads, pc, taskres, issued, cin, cout>>

update_slot_status ==
    /\ HostThreadFree
    /\ ret' = [cb |-> "update_slot_status", res |-> "Ok"]
    /\ NoPipelineEffect
    /\ UNCHANGED <<nthreads, pc, taskres, issued, cin, cout>>

notify_end_of_startup ==
    /\ HostThreadFree
    /\ ret' = [cb |-> "notify_end_of_startup", res |-> "Ok"]
    /\ NoPipelineEffect
    /\ UNCHANGED <<nthreads, pc, taskres, issued, cin, cout>>

\* ------------------------------------------------------ executor threads
\* Fault model for the Once: a check-then-initialize without exclusion, every
\* thread that finds the static not yet set runs the initializer.
OnceEnterUnguarded(state) == IF state = "done" THEN "send" ELSE "init"

\* Where a send task starts when it first dereferences SENDER: std's Once
\* lets exactly one thread run the initializer and parks the others until
\* it has completed.
OnceEnter(state) ==
    CASE state = "done" -> "send"
      [] state = "uninit" -> "init"
      [] OTHER -> "once_wait"

\* An idle executor thread pops the next runnable task and starts polling it.
\* The threads are interchangeable, so of several idle threads the one with
\* the lowest number is taken to be the one that pops.
RunTask(t) ==
    /\ t <= nthreads
    /\ thr[t] = Idle
    /\ \A u \in 1..(t - 1) : thr[u] # Idle
    /\ runq # <<>>
    /\ LET task == Head(runq)
       IN IF task.type = "writer"
          THEN /\ thr' = [thr EXCEPT ![t] = Polling(task, "recv")]
               /\ wstate' = "running"
               /\ once' = once
          ELSE /\ thr' = [thr EXCEPT ![t] = Polling(task, OnceEnter(once))]
               /\ once' = IF OnceEnter(once) = "init" THEN "running" ELSE once
               /\ wstate' = wstate
    /\ runq' = Tail(runq)
    /\ UNCHANGED <<nthreads, SENDER, chan, closed, ioError, accs_file,
                   txs_file, created, sentTo, arrived, rejected, cin, cout>>
    /\ UNCHANGED hostvars

\* The initializer of SENDER: unbounded(), File::create twice, smol::spawn of
\* the writer task (detached), and the Sender is stored in the static.
SenderInit(t) ==
    /\ t <= nthreads
    /\ thr[t].type = "send"
    /\ thr[t].pos = "init"
    /\ created' = [channel |-> created.channel + 1,
                   accs |-> created.accs + 1,
                   txs |-> created.txs + 1,
                   writer |-> created.writer + 1]
    /\ SENDER' = created.channel + 1
    /\ chan' = <<>>
    /\ closed' = FALSE
    /\ accs_file' = <<>>
    /\ txs_file' = <<>>
    /\ runq' = Append(runq, WriterTask)
    /\ wstate' = "scheduled"
    /\ once' = "done"
    /\ thr' = [thr EXCEPT ![t].pos = "send"]
    /\ UNCHANGED <<nthreads, ioError, sentTo, arrived, rejected, cin, cout>>
    /\ UNCHANGED hostvars

\* A thread parked on the Once resumes when the initializer has completed.
OnceWake(t) ==
    /\ t <= nthreads
    /\ thr[t].type = "send"
    /\ thr[t].pos = "once_wait"
    /\ once = "done"
    /\ thr' = [thr EXCEPT ![t].pos = "send"]
    /\ UNCHANGED <<nthreads, runq, once, SENDER, chan, closed, ioError, wstate,
                   accs_file, txs_file, created, sentTo, arrived, rejected,
                   cin, cout>>
    /\ UNCHANGED hostvars

\* Fault model for send: a channel that stays open when its Receiver is gone.
SendAcceptedWhenClosed(isClosed) == TRUE

\* Fault model for the buffer: a channel of capacity one that drops the event
\* when it is full.
ChanPushBounded(q, e) == IF q = <<>> THEN Append(q, e) ELSE q

\* Sender::send on the unbounded channel: Ok unless the channel is closed.
SendAccepted(isClosed) == ~isClosed

\* The channel's buffer after an accepted send.
ChanPush(q, e) == Append(q, e)

\* SENDER.send(outcome).await, and the completion of the task.
Send(t) ==
    /\ t <= nthreads
    /\ thr[t].type = "send"
    /\ thr[t].pos = "send"
    /\ sentTo' = sentTo \cup {SENDER}
    /\ IF SendAccepted(closed)
       THEN /\ chan' = ChanPush(chan, thr[t].ev)
            /\ arrived' = Append(arrived, thr[t].ev)
            /\ rejected' = rejected
            /\ IF wstate = "waiting"
               THEN /\ wstate' = "scheduled"
                    /\ runq' = Append(runq, WriterTask)
               ELSE UNCHANGED <<wstate, runq>>
       ELSE /\ rejected' = rejected \cup {thr[t].ev}
            /\ UNCHANGED <<chan, arrived, wstate, runq>>
    /\ taskres' = IF thr[t].waiter = 0 THEN taskres
                  ELSE [taskres EXCEPT ![thr[t].waiter] =
                            IF SendAccepted(closed) THEN "Ok" ELSE "Err"]
    /\ thr' = [thr EXCEPT ![t] = Idle]
    /\ UNCHANGED <<nthreads, pc, issued, ret, once, SENDER, closed, ioError,
                   accs_file, txs_file, created, cin, cout>>

\* ---------------------------------------------------------- writer task
\* Fault model for recv: the newest buffered event is taken first.
WriterRecvNewestFirst(t) ==
    /\ t <= nthreads
    /\ thr[t].type = "writer"
    /\ thr[t].pos = "recv"
    /\ IF chan # <<>>
       THEN /\ thr' = [thr EXCEPT ![t].ev = chan[Len(chan)], ![t].pos = "write"]
            /\ chan' = SubSeq(chan, 1, Len(chan) - 1)
            /\ wstate' = wstate
       ELSE /\ thr' = [thr EXCEPT ![t] = Idle]
            /\ chan' = chan
            /\ wstate' = IF closed THEN "finished" ELSE "waiting"
    /\ UNCHANGED <<nthreads, runq, once, SENDER, closed, ioError, accs_file,
                   txs_file, created, sentTo, arrived, rejected, cin, cout>>
    /\ UNCHANGED hostvars

\* Fault model for recv: a non-blocking receive, the loop ending as soon as
\* the buffer is found empty.
WriterRecvStopsWhenEmpty(t) ==
    /\ t <= nthreads
    /\ thr[t].type = "writer"
    /\ thr[t].pos = "recv"
    /\ IF chan # <<>>
       THEN /\ thr' = [thr EXCEPT ![t].ev = Head(chan), ![t].pos = "write"]
            /\ chan' = Tail(chan)
            /\ wstate' = wstate
       ELSE /\ thr' = [thr EXCEPT ![t] = Idle]
            /\ chan' = chan
            /\ wstate' = "finished"
    /\ UNCHANGED <<nthreads, runq, once, SENDER, closed, ioError, accs_file,
                   txs_file, created, sentTo, arrived, rejected, cin, cout>>
    /\ UNCHANGED hostvars

\* Fault model for recv: the event is read but left in the buffer.
WriterRecvLeavesEvent(t) ==
    /\ t <= nthreads
    /\ thr[t].type = "writer"
    /\ thr[t].pos = "recv"
    /\ IF chan # <<>>
       THEN /\ thr' = [thr EXCEPT ![t].ev = Head(chan), ![t].pos = "write"]
            /\ chan' = chan
            /\ wstate' = wstate
       ELSE /\ thr' = [thr EXCEPT ![t] = Idle]
            /\ chan' = chan
            /\ wstate' = IF closed THEN "finished" ELSE "waiting"
    /\ UNCHANGED <<nthreads, runq, once, SENDER, closed, ioError, accs_file,
                   txs_file, created, sentTo, arrived, rejected, cin, cout>>
    /\ UNCHANGED hostvars

\* receiver.recv().await: the next buffered event; with an empty buffer the
\* task parks, or ends the loop when the channel is closed.
WriterRecv(t) ==
    /\ t <= nthreads
    /\ thr[t].type = "writer"
    /\ thr[t].pos = "recv"
    /\ IF chan # <<>>
       THEN /\ thr' = [thr EXCEPT ![t].ev = Head(chan), ![t].pos = "write"]
            /\ chan' = Tail(chan)
            /\ wstate' = wstate
       ELSE /\ thr' = [thr EXCEPT ![t] = Idle]
            /\ chan' = chan
            /\ wstate' = IF closed THEN "finished" ELSE "waiting"
    /\ UNCHANGED <<nthreads, runq, once, SENDER, closed, ioError, accs_file,
                   txs_file, created, sentTo, arrived, rejected, cin, cout>>
    /\ UNCHANGED hostvars

\* Fault model for the match: the two arms exchanged.
StreamOfExchanged(e) == IF e.kind = "Acc" THEN "txs" ELSE "accs"

\* The match of the writer loop: which file an event is appended to.
StreamOf(e) == IF e.kind = "Acc" THEN "accs" ELSE "txs"

\* Fault model for the write: the file is created anew for every record, so
\* it holds the last record only.
WriterWriteOkRecreating(t) ==
    /\ t <= nthreads
    /\ thr[t].type = "writer"
    /\ thr[t].pos = "write"
    /\ IF StreamOf(thr[t].ev) = "accs"
       THEN /\ accs_file' = <<into_bytes(thr[t].ev)>>
            /\ txs_file' = txs_file
       ELSE /\ txs_file' = <<into_bytes(thr[t].ev)>>
            /\ accs_file' = accs_file
    /\ thr' = [thr EXCEPT ![t].ev = NoEvent, ![t].pos = "recv"]
    /\ UNCHANGED <<nthreads, runq, once, SENDER, chan, closed, ioError, wstate,
                   created, sentTo, arrived, rejected, cin, cout>>
    /\ UNCHANGED hostvars

\* write_all returned Ok: the record is appended and the loop continues.
WriterWriteOk(t) ==
    /\ t <= nthreads
    /\ thr[t].type = "writer"
    /\ thr[t].pos = "write"
    /\ IF StreamOf(thr[t].ev) = "accs"
       THEN /\ accs_file' = Append(accs_file, into_bytes(thr[t].ev))
            /\ txs_file' = txs_file
       ELSE /\ txs_file' = Append(txs_file, into_bytes(thr[t].ev))
            /\ accs_file' = accs_file
    /\ thr' = [thr EXCEPT ![t].ev = NoEvent, ![t].pos = "recv"]
    /\ UNCHANGED <<nthreads, runq, once, SENDER, chan, closed, ioError, wstate,
                   created, sentTo, arrived, rejected, cin, cout>>
    /\ UNCHANGED hostvars

\* Fault model for the write error: caught, the record skipped, and the loop
\* continues with the next event.
WriterWriteErrContinue(t) ==
    /\ t <= nthreads
    /\ thr[t].type = "writer"
    /\ thr[t].pos = "write"
    /\ ioError' = TRUE
    /\ thr' = [thr EXCEPT ![t].ev = NoEvent, ![t].pos = "recv"]
    /\ UNCHANGED <<nthreads, runq, once, SENDER, chan, closed, wstate,
                   accs_file, txs_file, created, sentTo, arrived, rejected,
                   cin, cout>>
    /\ UNCHANGED hostvars

\* write_all returned Err: unwrap() panics.  The task is dropped with its
\* Receiver (which closes the channel) and its two files; the executor thread
\* catches the unwind and goes on.
WriterWriteErr(t) ==
    /\ t <= nthreads
    /\ thr[t].type = "writer"
    /\ thr[t].pos = "write"
    /\ ioError' = TRUE
    /\ wstate' = "dead"
    /\ closed' = TRUE
    /\ thr' = [thr EXCEPT ![t] = Idle]
    /\ UNCHANGED <<nthreads, runq, once, SENDER, chan, accs_file, txs_file,
                   created, sentTo, arrived, rejected, cin, cout>>
    /\ UNCHANGED hostvars

\* ------------------------------------------------------- specifications
HostStep(p) ==
    \/ update_account(p)
    \/ update_account_return(p)
    \/ notify_transaction(p)

ExecStep(t) ==
    \/ RunTask(t)
    \/ SenderInit(t)
    \/ OnceWake(t)
    \/ Send(t)
    \/ WriterRecv(t)
    \/ WriterWriteOk(t)
    \/ WriterWriteErr(t)

ExecNext == \E t \in ExecThreads : ExecStep(t)

Next ==
    \/ \E p \in Producers : HostStep(p)
    \/ on_load
    \/ on_unload
    \/ notify_block_metadata
    \/ update_slot_status
    \/ notify_end_of_startup
    \/ ExecNext

Spec == Init /\ [][Next]_vars

\* The executor threads are OS threads that get to run: while some executor
\* thread can take a step, one of them eventually does; a write_all that has
\* been started returns (with Ok or Err).  Host threads need not call.
\* The five callbacks that only return do not touch the pipeline, so the
\* delivery of events is followed over the steps that do.
PipelineNext ==
    \/ \E p \in Producers : HostStep(p)
    \/ ExecNext

FairSpec == Init /\ [][PipelineNext]_vars /\ WF_vars(ExecNext)

\* ------------------------------------------- conversions on their own
\* Host values of both schema versions, over small field domains whose
\* values differ from field to field.
Bool == {TRUE, FALSE}

AccountInfos ==
    { [version |-> "V0_0_1", pubkey |-> k, lamports |-> l, owner |-> o,
       executable |-> x, rent_epoch |-> r, data |-> d, write_version |-> w] :
        k \in {<<1, 2, 3>>, <<9>>}, l \in {0, 500}, o \in {<<4>>, <<5, 5>>},
        x \in Bool, r \in {1, 2}, d \in {<<>>, <<7>>}, w \in {3, 4} }
    \cup
    { [version |-> "V0_0_2", pubkey |-> k, lamports |-> l, owner |-> o,
       executable |-> x, rent_epoch |-> r, data |-> d, write_version |-> w,
       txn_signature |-> g] :
        k \in {<<1, 2, 3>>, <<9>>}, l \in {0, 500}, o \in {<<4>>, <<5, 5>>},
        x \in Bool, r \in {1, 2}, d \in {<<>>, <<7>>}, w \in {3, 4},
        g \in {None, Some(<<8, 8>>)} }

TransactionInfos ==
    { [version |-> "V0_0_1", signature |-> g, is_vote |-> v,
       transaction |-> x, transaction_status_meta |-> m] :
        g \in {<<0, 0>>, <<6>>}, v \in Bool, x \in {"transfer", "vote"},
        m \in {"ok", "err"} }
    \cup
    { [version |-> "V0_0_2", signature |-> g, is_vote |-> v,
       transaction |-> x, transaction_status_meta |-> m, index |-> i] :
        g \in {<<0, 0>>, <<6>>}, v \in Bool, x \in {"transfer", "vote"},
        m \in {"ok", "err"}, i \in {0, 3} }

ConvInputs ==
    { [family |-> "account", slot |-> s, is_startup |-> b, value |-> v] :
        s \in {10, 11}, b \in Bool, v \in AccountInfos }
    \cup
    { [family |-> "transaction", slot |-> s, is_startup |-> FALSE, value |-> v] :
        s \in {7, 10}, v \in TransactionInfos }

ConvInit ==
    /\ nthreads = 1
    /\ PipelineInit
    /\ cin \in ConvInputs
    /\ cout = NoEvent

ApplyIntoAcc ==
    /\ cin.family = "account"
    /\ cout = NoEvent
    /\ cout' = into_acc(cin.slot, cin.is_startup, cin.value)
    /\ UNCHANGED <<nthreads, cin>>
    /\ UNCHANGED hostvars
    /\ UNCHANGED pipeline

ApplyIntoTx ==
    /\ cin.family = "transaction"
    /\ cout = NoEvent
    /\ cout' = into_tx(cin.slot, cin.value)
    /\ UNCHANGED <<nthreads, cin>>
    /\ UNCHANGED hostvars
    /\ UNCHANGED pipeline

ConvNext == ApplyIntoAcc \/ ApplyIntoTx

ConvSpec == ConvInit /\ [][ConvNext]_vars

\* ------------------------------------------------------------ properties
Count(f, r) == Cardinality({i \in DOMAIN f : f[i] = r})
IssuedEvents == UNION {Range(issued[p]) : p \in Producers}
FileOf(e) == IF e.kind = "Acc" THEN accs_file ELSE txs_file
OtherFileOf(e) == IF e.kind = "Acc" THEN txs_file ELSE accs_file

AllIssuedWritten ==
    \A e \in IssuedEvents : Count(FileOf(e), into_bytes(e)) = 1
NeverTwiceNorMisfiled ==
    \A e \in IssuedEvents :
        /\ Count(FileOf(e), into_bytes(e)) <= 1
        /\ Count(OtherFileOf(e), into_bytes(e)) = 0

Drained ==
    /\ runq = <<>>
    /\ \A t \in ExecThreads : thr[t] = Idle
    /\ chan = <<>>
    /\ wstate = "waiting"
    /\ \A p \in Producers : pc[p] # "awaiting"

\* The records of a stream that come from host thread p, in stream order.
RecordsOf(f, p) ==
    LET FromP(r) == \E i \in DOMAIN issued[p] : into_bytes(issued[p][i]) = r
    IN SelectSeq(f, FromP)
\* The records host thread p's callbacks of one kind stand for, in call order.
ExpectedOf(kind, p) ==
    LET OfKind(e) == e.kind = kind
        evs == SelectSeq(issued[p], OfKind)
    IN [i \in DOMAIN evs |-> into_bytes(evs[i])]

\* C2: when a host thread has issued N callbacks of one kind in sequence and
\* the pipeline is drained (no write failed), the stream of that kind holds
\* exactly that thread's N records, in the order of the calls; for the
\* account path and for the transaction path.
C2_SingleProducerOrderKept ==
    (Drained /\ ~ioError) =>
        \A p \in Producers :
            /\ RecordsOf(accs_file, p) = ExpectedOf("Acc", p)
            /\ RecordsOf(txs_file, p) = ExpectedOf("Tx", p)

\* The account half of C2 alone (update_account awaits its hand-off).
AccountPathOrderKept ==
    (Drained /\ ~ioError) =>
        \A p \in Producers : RecordsOf(accs_file, p) = ExpectedOf("Acc", p)

WriterStalled ==
    \E t \in ExecThreads : thr[t].type = "writer" /\ thr[t].pos = "write"

\* A step of the executor that is not the writer task's.
HandOffStep(t) == RunTask(t) \/ SenderInit(t) \/ OnceWake(t) \/ Send(t)

\* C3: a callback never waits for the writer task's I/O: whenever a host
\* thread is inside update_account while the writer task is inside an append,
\* the callback can return or its hand-off can advance without that append
\* completing.
C3_CallbackNeverWaitsForWriterIO ==
    \A p \in Producers :
        (pc[p] = "awaiting" /\ WriterStalled) =>
            \/ ENABLED update_account_return(p)
            \/ ENABLED (\E t \in ExecThreads : HandOffStep(t))

\* C4: however the first accesses to SENDER interleave, at most one channel,
\* one writer task and one file of each kind are ever created; once the
\* initialization has completed there is exactly one of each, and no send is
\* ever performed on anything but that one channel.
C4_SingleInitialization ==
    /\ created.channel <= 1 /\ created.writer <= 1
    /\ created.accs <= 1 /\ created.txs <= 1
    /\ once = "done" =>
          /\ created = [channel |-> 1, accs |-> 1, txs |-> 1, writer |-> 1]
          /\ SENDER = 1
    /\ once # "done" => sentTo = {}
    /\ sentTo \subseteq {1}

\* A thread found the initialization in progress, and it has completed.
C4_Witness ==
    /\ once = "done"
    /\ \E t \in ExecThreads : thr[t].pos = "once_wait"

\* C5: every steady-state callback returns success in every reachable state,
\* also after the writer task has terminated on a write failure: no callback
\* ever panics.
C5_CallbacksAlwaysSucceed ==
    /\ ret.res # "panic"
    /\ \A p \in Producers : pc[p] # "panicked"

WriterTaskGone ==
    /\ \A t \in ExecThreads : thr[t].type # "writer"
    /\ \A i \in DOMAIN runq : runq[i].type # "writer"

\* C6: a failed append is fatal to the writer task: the step in which a write
\* fails leaves no writer task (it does not retry), and from then on the
\* task never comes back and neither stream changes.
C6_WriteFailureIsFatal ==
    [][ /\ ioError' => WriterTaskGone'
        /\ ioError => UNCHANGED <<accs_file, txs_file>> ]_vars

\* The write failed while further events were queued.
C6_Witness == ioError /\ chan # <<>>

SendCompletes ==
    \E t \in ExecThreads : thr[t].pos = "send" /\ thr'[t] = Idle

C8_IntoAccMirrorsSource ==
    (cin.family = "account" /\ cout # NoEvent) =>
        /\ cout.kind = "Acc"
        /\ cout.pubkey = cin.value.pubkey
        /\ cout.lamports = cin.value.lamports
        /\ cout.owner = cin.value.owner
        /\ cout.executable = cin.value.executable
        /\ cout.rent_epoch = cin.value.rent_epoch
        /\ cout.data = cin.value.data
        /\ cout.write_version = cin.value.write_version
        /\ cout.slot = cin.slot
        /\ cout.is_startup = cin.is_startup
        /\ cin.value.version = "V0_0_1" => cout.txn_signature = None
        /\ cin.value.version = "V0_0_2" =>
              cout.txn_signature = cin.value.txn_signature

\* A V0_0_2 account that carries a signature has been converted.
C8_Witness ==
    /\ cout # NoEvent
    /\ cout.kind = "Acc"
    /\ cin.value.version = "V0_0_2"
    /\ cout.txn_signature # None

\* C9: for both transaction schema versions into_tx(slot, source) is a Tx
\* whose signature, is_vote, transaction and status metadata are the
\* source's and whose slot is the argument; index is None for V0_0_1 and
\* Some(source index) for V0_0_2.
C9_IntoTxMirrorsSource ==
    (cin.family = "transaction" /\ cout # NoEvent) =>
        /\ cout.kind = "Tx"
        /\ cout.signature = cin.value.signature
        /\ cout.is_vote = cin.value.is_vote
        /\ cout.transaction = cin.value.transaction
        /\ cout.transaction_status_meta = cin.value.transaction_status_meta
        /\ cout.slot = cin.slot
        /\ cin.value.version = "V0_0_1" => cout.index = None
        /\ cin.value.version = "V0_0_2" => cout.index = Some(cin.value.index)

\* A V0_0_2 transaction has been converted.
C9_Witness ==
    /\ cout # NoEvent
    /\ cout.kind = "Tx"
    /\ cin.value.version = "V0_0_2"
    /\ cout.index = Some(3)

NoOpCallbacks ==
    {"on_load", "on_unload", "notify_block_metadata", "update_slot_status",
     "notify_end_of_startup"}

\* C10: a step in which on_load, on_unload, notify_block_metadata,
\* update_slot_status or notify_end_of_startup returns leaves the pipeline as
\* it was: nothing is created, enqueued or appended.
C10_NoOpCallbacksLeavePipeline ==
    [][ (ret' # ret /\ ret'.cb \in NoOpCallbacks) => UNCHANGED pipeline ]_vars

\* Such a callback has returned while the pipeline holds an event.
C10_Witness ==
    /\ ret.cb \in NoOpCallbacks
    /\ once = "done"
    /\ chan # <<>>

\* The writer task holds an event it has dequeued and not yet written.
WriterHolds(t) == thr[t].type = "writer" /\ thr[t].pos = "write"

\* C11: an event the writer task has dequeued gets one write_all, which
\* appends one record, the rendering of that event, to the stream of the
\* event's variant and leaves the other stream alone, after which the task
\* no longer holds the event; a dequeue appends nothing; and no step other
\* than that write of the writer task changes either stream.
C11_OneAppendToMatchingStream ==
    [][ /\ <<accs_file, txs_file>>' # <<accs_file, txs_file>> =>
              \E t \in ExecThreads :
                  /\ WriterHolds(t)
                  /\ thr'[t].ev = NoEvent
                  /\ IF thr[t].ev.kind = "Acc"
                     THEN /\ accs_file' = Append(accs_file, into_bytes(thr[t].ev))
                          /\ txs_file' = txs_file
                     ELSE /\ txs_file' = Append(txs_file, into_bytes(thr[t].ev))
                          /\ accs_file' = accs_file
        /\ \A t \in ExecThreads :
              (WriterHolds(t) /\ thr'[t] # thr[t] /\ ~ioError') =>
                  Len(accs_file') + Len(txs_file')
                      = Len(accs_file) + Len(txs_file) + 1 ]_vars

\* An account event and a transaction event have both been appended.
C11_Witness == accs_file # <<>> /\ txs_file # <<>>

\* The records that stand for the events of one kind among the events the
\* channel accepted, in arrival order.
ArrivedRecords(kind) ==
    LET OfKind(e) == e.kind = kind
        evs == SelectSeq(arrived, OfKind)
    IN [i \in DOMAIN evs |-> into_bytes(evs[i])]

IsPrefix(a, b) == Len(a) <= Len(b) /\ a = SubSeq(b, 1, Len(a))

\* C12: at every moment each stream is a prefix of the records of the events
\* of its kind in the order in which they arrived in the channel, whatever
\* the number of host threads that hand events off.
C12_StreamsFollowArrivalOrder ==
    /\ IsPrefix(accs_file, ArrivedRecords("Acc"))
    /\ IsPrefix(txs_file, ArrivedRecords("Tx"))

\* A stream holds two records that come from two different host threads.
C12_Witness ==
    \E f \in {accs_file, txs_file} :
        \E p, q \in Producers :
            /\ p # q
            /\ RecordsOf(f, p) # <<>>
            /\ RecordsOf(f, q) # <<>>

\* The send task of event e has been spawned and has not completed.
PendingHandOff(e) ==
    \/ \E i \in DOMAIN runq : runq[i].type = "send" /\ runq[i].ev = e
    \/ \E t \in ExecThreads : thr[t].type = "send" /\ thr[t].ev = e

\* The call of host thread p that built its i-th event has returned Ok.
Returned(p, i) == i < Len(issued[p]) \/ pc[p] = "idle"

\* C13: once update_account has returned, its event is no longer pending
\* hand-off: the channel has accepted it (it is buffered, held by the writer
\* task or written).
C13_AccountHandedOffAtReturn ==
    \A p \in Producers :
        \A i \in DOMAIN issued[p] :
            (issued[p][i].kind = "Acc" /\ Returned(p, i)) =>
                /\ ~PendingHandOff(issued[p][i])
                /\ issued[p][i] \in Range(arrived)

\* update_account has just returned and its event is still in the buffer.
C13_Witness ==
    /\ ret = [cb |-> "update_account", res |-> "Ok"]
    /\ \E p \in Producers :
          /\ pc[p] = "idle"
          /\ issued[p] # <<>>
          /\ issued[p][Len(issued[p])].kind = "Acc"
          /\ issued[p][Len(issued[p])] \in Range(chan)

\* The writer task exists: it is runnable, being polled, or parked in recv.
WriterTaskAlive ==
    \/ wstate = "scheduled" /\ \E i \in DOMAIN runq : runq[i].type = "writer"
    \/ wstate = "running" /\ \E t \in ExecThreads : thr[t].type = "writer"
    \/ wstate = "waiting" /\ chan = <<>> /\ WriterTaskGone

\* C14: the writer task ends its loop only on a channel that is closed and
\* empty; as long as no write has failed the channel stays open (SENDER is
\* never dropped), and from the moment it is spawned the task is alive:
\* runnable, running, or parked in recv with nothing buffered.
C14_WriterStopsOnlyWhenClosedAndEmpty ==
    /\ wstate = "finished" => (closed /\ chan = <<>>)
    /\ ~ioError =>
          /\ ~closed
          /\ wstate \notin {"dead", "finished"}
          /\ once = "done" => WriterTaskAlive

\* The writer task has written a record and is parked again, no write failed.
C14_Witness ==
    /\ ~ioError
    /\ wstate = "waiting"
    /\ accs_file # <<>> \/ txs_file # <<>>

NumPending ==
    Cardinality({i \in DOMAIN runq : runq[i].type = "send"})
        + Cardinality({t \in ExecThreads : thr[t].type = "send"})
NumHeld == Cardinality({t \in ExecThreads : WriterHolds(t)})
NumIssued(kind) ==
    Cardinality({e \in IssuedEvents : e.kind = kind})

====
